---- MODULE Spec2Model ----
(***************************************************************************)
(* RBAC-UI: role-based access control for a blog platform.                 *)
(*                                                                         *)
(* The model covers the permission check (hasPermission), the server-side  *)
(* guards built on it, the NextAuth sign-in / JWT / session callbacks that *)
(* produce the identity of a request, and the server actions on the three *)
(* collections users, blogs and comments.  requests holds the              *)
(* assignPermission requests whose two persistence calls are followed one  *)
(* by one.                                                                 *)
(*                                                                         *)
(* JavaScript values are modelled as follows: a missing object (null or    *)
(* undefined) is the record Undefined; an object with a missing property   *)
(* is a record without that field; the result of hasPermission is one of   *)
(* "true", "false", "undefined" (the value of  undefined?.includes(..))    *)
(* and "TypeError" (the call threw while reading a property of undefined). *)
(***************************************************************************)
EXTENDS Integers, Sequences, FiniteSets, TLC

VARIABLES users, token, blogs, comments, commentSeq, last, requests

vars == <<users, token, blogs, comments, commentSeq, last, requests>>

----------------------------------------------------------------------------
(* Bounds of the model.                                                    *)

\* Blogs ever created.
MaxBlogs == 1
\* Comments ever created.
MaxComments == 1
\* Entries in all permission lists together (and the longest list drawn as
\* an input of the permission check).
MaxGrants == 1
\* Longest title, category and search query, in characters.
MaxWordLen == 2
\* Most comments in the store when comments are fetched.
MaxRows == 6
\* Most segments of a requested path.
MaxPathLen == 3
\* assignPermission requests handled at the same time.
MaxRequests == 2
\* Longest title and longest description typed into the blog form, in
\* characters.
MaxTitleLen == 3
MaxDescriptionLen == 10

----------------------------------------------------------------------------
(* Vocabulary.                                                             *)

UserIds == {"u1", "u2", "u3"}

Roles == {"ADMIN", "EDITOR", "USER"}

\* The permission names the documentation lists for blogs.
Caps == {"CREATE_BLOG", "EDIT_BLOG", "UPDATE_BLOG"}

\* null / undefined.
Undefined == [undefined |-> TRUE]

InSeq(x, s) == \E i \in 1..Len(s) : s[i] = x

\* The duplicate-free lists over S of length at most n.
NoDupSeqs(S, n) ==
  {s \in UNION {[1..k -> S] : k \in 0..n} :
     \A i, j \in 1..Len(s) : i # j => s[i] # s[j]}

----------------------------------------------------------------------------
(* Permission check.                                                       *)

\* user.permissions?.includes(permission)
includes(user, permission) ==
  IF "permissions" \notin DOMAIN user THEN "undefined"
  ELSE IF InSeq(permission, user.permissions) THEN "true" ELSE "false"

\* Plausible bug: the ADMIN bypass is dropped.
hasPermission_noBypass(user, permission) ==
  IF user = Undefined THEN "TypeError" ELSE includes(user, permission)

\* lib/auth.js:  user.role === "ADMIN" || user.permissions?.includes(permission)
\* Reading .role of an absent user throws a TypeError.
hasPermission(user, permission) ==
  IF user = Undefined THEN "TypeError"
  ELSE IF user.role = "ADMIN" THEN "true"
  ELSE includes(user, permission)

\* Plausible bug: the role hierarchy is applied, EDITOR passes every check.
hasPermission_sec_editor(user, requiredPermission) ==
  IF user = Undefined THEN "TypeError"
  ELSE IF user.role \in {"ADMIN", "EDITOR"} THEN "true"
  ELSE includes(user, requiredPermission)

\* Security documentation's version:
\*   if (user.role === "ADMIN") return true;
\*   return user.permissions?.includes(requiredPermission);
hasPermission_sec(user, requiredPermission) ==
  IF user = Undefined THEN "TypeError"
  ELSE IF user.role = "ADMIN" THEN "true"
  ELSE includes(user, requiredPermission)

\* JavaScript truthiness of a result of hasPermission that was returned.
Truthy(v) == v = "true"

----------------------------------------------------------------------------
(* Identity: sign-in, JWT and session callbacks.                           *)

Hash(password) == <<"bcrypt", password>>

\* bcrypt.compare(password, hash)
bcrypt_compare(password, hash) == hash = Hash(password)

Passwords == {"right", "wrong"}

Emails == UserIds \cup {"nobody"}

\* prisma.user.findUnique({ where: { email } }); a user's email is its id here.
findUnique(email) ==
  IF email \in UserIds THEN [id |-> email] @@ users[email] ELSE Undefined

\* authorize(credentials): the user object handed to the jwt callback, or the
\* thrown Error("Invalid credentials").  The application's session carries id,
\* role and permissions (Session Structure), so the user object carries them.
authorize(credentials) ==
  LET user == findUnique(credentials.email)
  IN IF user = Undefined \/ ~bcrypt_compare(credentials.password, user.password)
     THEN [thrown |-> "Invalid credentials"]
     ELSE [id |-> user.id, role |-> user.role, permissions |-> user.permissions]

\* callbacks.jwt({ token, user }):  if (user) { token.role = user.role }.
\* user is present at sign-in only: the fields are copied into the token then
\* (role in the guide; id and permissions with it, as the documented session
\* carries them) and the token is returned unchanged on every later request.
jwt(oldToken, user) ==
  IF user # Undefined
  THEN [sub |-> user.id, role |-> user.role, permissions |-> user.permissions]
  ELSE oldToken

\* callbacks.session({ session, token }): the session's user is filled from
\* the token.
session(tok) ==
  [user |-> [id |-> tok.sub, role |-> tok.role,
             permissions |-> tok.permissions]]

\* getServerSession(authOptions) for a request of caller: no cookie, no session;
\* otherwise the jwt callback runs without a user and the session callback
\* builds the session from the token.
getServerSession(caller) ==
  IF token[caller] = Undefined THEN Undefined
  ELSE session(jwt(token[caller], Undefined))

\* session?.user
UserOf(s) == IF s = Undefined THEN Undefined ELSE s.user

InitRole(u) == CASE u = "u1" -> "ADMIN" [] u = "u2" -> "EDITOR" [] OTHER -> "USER"

NoLast ==
  [op |-> "none", caller |-> "", user |-> Undefined, permission |-> "",
   verdict |-> "not called", valid |-> FALSE, outcome |-> "", calls |-> 0,
   blogId |-> 0, commentId |-> 0, targetUser |-> "",
   query |-> <<>>, result |-> {},
   opResult |-> [none |-> TRUE], returned |-> [none |-> TRUE],
   path |-> <<>>, form |-> [none |-> TRUE]]

Init ==
  /\ users = [u \in UserIds |->
                [role |-> InitRole(u), permissions |-> <<>>,
                 password |-> Hash("right")]]
  /\ token = [u \in UserIds |-> Undefined]
  /\ blogs = {}
  /\ comments = {}
  /\ commentSeq = 0
  /\ last = NoLast
  /\ requests = {}

\* POST /api/auth/signin with the credentials provider.
signIn(credentials) ==
  LET user == authorize(credentials)
      ok == "thrown" \notin DOMAIN user
  IN /\ token' = IF ok THEN [token EXCEPT ![user.id] = jwt(Undefined, user)]
                 ELSE token
     /\ last' = [NoLast EXCEPT !.op = "signIn",
                               !.outcome = IF ok THEN "success"
                                           ELSE "threw " \o user.thrown]
     /\ UNCHANGED <<requests, users, blogs, comments, commentSeq>>

\* POST /api/auth/signout: the cookie holding the token is dropped.
signOut(caller) ==
  /\ token[caller] # Undefined
  /\ token' = [token EXCEPT ![caller] = Undefined]
  /\ last' = [NoLast EXCEPT !.op = "signOut", !.caller = caller,
                            !.outcome = "success"]
  /\ UNCHANGED <<requests, users, blogs, comments, commentSeq>>

----------------------------------------------------------------------------
(* The guards of the documentation, applied to a session given as input.   *)

\* The user objects a session can carry: any id and role, a duplicate-free
\* permission list, or no permissions property at all.
UserInputs ==
  [id : UserIds, role : Roles, permissions : NoDupSeqs(Caps, MaxGrants)]
    \cup [id : UserIds, role : Roles]

SessionInputs == {Undefined} \cup {[user |-> u] : u \in UserInputs}

\* Development guide, "Apply in Server Actions":
\*   if (!hasPermission(session?.user, PERMISSIONS.CREATE_BLOG))
\*     throw new Error("Insufficient permissions");
protectedAction(s) ==
  LET verdict == hasPermission(UserOf(s), "CREATE_BLOG")
  IN /\ last' = [NoLast EXCEPT
                   !.op = "protectedAction", !.user = UserOf(s),
                   !.permission = "CREATE_BLOG", !.verdict = verdict,
                   !.outcome = IF verdict = "TypeError" THEN "threw TypeError"
                               ELSE IF ~Truthy(verdict)
                                    THEN "threw Insufficient permissions"
                               ELSE "success"]
     /\ UNCHANGED <<requests, users, token, blogs, comments, commentSeq>>

\* Security documentation, "Server-Side Protection":
\*   if (!session) throw new Error("Authentication required");
\*   if (!hasPermission(session.user, "REQUIRED_PERMISSION"))
\*     throw new Error("Insufficient permissions");
protectedAction_sec(s, requiredPermission) ==
  LET verdict == IF s = Undefined THEN "not called"
                 ELSE hasPermission_sec(s.user, requiredPermission)
  IN /\ last' = [NoLast EXCEPT
                   !.op = "protectedAction_sec", !.user = UserOf(s),
                   !.permission = requiredPermission, !.verdict = verdict,
                   !.outcome = IF s = Undefined
                               THEN "threw Authentication required"
                               ELSE IF ~Truthy(verdict)
                                    THEN "threw Insufficient permissions"
                               ELSE "success"]
     /\ UNCHANGED <<requests, users, token, blogs, comments, commentSeq>>

----------------------------------------------------------------------------
(* Server actions (actions/actions.js).                                    *)

\* Plausible bug: only the presence of a session is checked.
actionName_denied_sessionOnly(s, permission) == s = Undefined

\* Server action pattern:
\*   if (!session || !hasPermission(session.user, "REQUIRED_PERMISSION"))
\*     return { error: "Unauthorized" };
actionName_denied(s, permission) ==
  s = Undefined \/ ~Truthy(hasPermission(s.user, permission))

\* Plausible bug: addBlog asks for the permission of updateBlog.
addBlog_permission_edit == "EDIT_BLOG"

\* The result of hasPermission in the pattern above; || does not evaluate it
\* without a session.
actionName_verdict(s, permission) ==
  IF s = Undefined THEN "not called" ELSE hasPermission(s.user, permission)

\* What prisma.model.create does when the pattern calls it: it returns the
\* created row or throws.
CreateResults ==
  {[row |-> "created"],
   [thrown |-> "PrismaClientKnownRequestError"],
   [thrown |-> "PrismaClientInitializationError"]}

\* Plausible bug: the catch block passes the error of the operation on.
actionName_result_rethrow(create) ==
  IF "thrown" \in DOMAIN create THEN [error |-> create.thrown]
  ELSE [success |-> TRUE, data |-> create.row]

\* The try/catch of the pattern around the database operation:
\*   return { success: true, data: result };
\*   catch (error) { ...; return { error: "Operation failed" }; }
actionName_result(create) ==
  IF "thrown" \in DOMAIN create THEN [error |-> "Operation failed"]
  ELSE [success |-> TRUE, data |-> create.row]

\* What the pattern returns for a session, a required permission and a
\* behaviour of the database operation.
actionName_return(s, permission, create) ==
  IF actionName_denied(s, permission) THEN [error |-> "Unauthorized"]
  ELSE actionName_result(create)

\* The pattern itself, applied to a session given as input; calls counts the
\* executions of the database operation.
actionName(s, permission, create) ==
  LET denied == actionName_denied(s, permission)
      returned == actionName_return(s, permission, create)
  IN /\ last' = [NoLast EXCEPT
                   !.op = "actionName", !.user = UserOf(s),
                   !.permission = permission,
                   !.verdict = actionName_verdict(s, permission),
                   !.outcome = IF "error" \in DOMAIN returned
                               THEN returned.error ELSE "success",
                   !.calls = IF denied THEN 0 ELSE 1,
                   !.opResult = IF denied THEN [none |-> TRUE] ELSE create,
                   !.returned = returned]
     /\ UNCHANGED <<requests, users, token, blogs, comments, commentSeq>>

\* The characters of the strings that String.prototype.includes is applied
\* to.
chars(str) ==
  CASE str = "ADMIN" -> <<"A", "D", "M", "I", "N">>
    [] str = "EDITOR" -> <<"E", "D", "I", "T", "O", "R">>
    [] str = "USER" -> <<"U", "S", "E", "R">>
    [] str = "EDIT_BLOG" -> <<"E", "D", "I", "T", "_", "B", "L", "O", "G">>

\* str.includes(searchString) on strings: searchString occurs in str.
String_includes(str, searchString) ==
  LET a == chars(str)
      b == chars(searchString)
  IN \E i \in 0..(Len(a) - Len(b)) : \A j \in 1..Len(b) : a[i + j] = b[j]

\* Page() of the guide, "Role-Based Access in Components":
\*   if (!session?.user?.role.includes("EDIT_BLOG")) { ...; redirect("/"); }
\*   return <div>Welcome to the Editor's Dashboard</div>;
\* Without a session the optional chain yields undefined and the page
\* redirects.
Page(s) ==
  /\ last' = [NoLast EXCEPT
                !.op = "Page", !.user = UserOf(s),
                !.outcome = IF s = Undefined THEN "redirect /"
                            ELSE IF ~String_includes(s.user.role, "EDIT_BLOG")
                                 THEN "redirect /"
                            ELSE "page"]
  /\ UNCHANGED <<requests, users, token, blogs, comments, commentSeq>>

NextEval ==
  \/ \E s \in SessionInputs : protectedAction(s)
  \/ \E s \in SessionInputs, p \in Caps : protectedAction_sec(s, p)
  \/ \E s \in SessionInputs, p \in Caps, c \in CreateResults :
       actionName(s, p, c)
  \/ \E s \in SessionInputs : Page(s)

SpecEval == Init /\ [][NextEval]_vars

\* addBlog: ADMIN role or CREATE_BLOG permission.
addBlog_permission == "CREATE_BLOG"


\* Plausible bug: updateBlog asks for the permission of addBlog.
updateBlog_permission_create == "CREATE_BLOG"

\* updateBlog: ADMIN role or EDIT_BLOG permission.
updateBlog_permission == "EDIT_BLOG"

\* The forms submitted: title and description as typed (possibly empty), and
\* an authorId field a client may add to the request.
BlogForms ==
  {[title |-> "T", description |-> "D", authorId |-> ""],
   [title |-> "U", description |-> "D", authorId |-> "u3"],
   [title |-> "", description |-> "D", authorId |-> ""],
   [title |-> "T", description |-> "", authorId |-> ""]}

\* Plausible bug: the author is read from the submitted form.
createNewItem_data_fromForm(s, formData) ==
  [title |-> formData.title, authorId |-> formData.authorId]

\* const data = { title: formData.get("title"), ..., authorId: session.user.id }
\* (the stored description is not modelled).
createNewItem_data(s, formData) ==
  [title |-> formData.title, authorId |-> s.user.id]

\* Minimal shape check of a blog form: title and description are non-empty.
validBlog(formData) == formData.title # "" /\ formData.description # ""

BlogIds == 1..(MaxBlogs + 1)

findBlog(id) == {b \in blogs : b.id = id}

\* addBlog(formData): guard, validation, prisma.blog.create.
addBlog(caller, formData) ==
  LET s == getServerSession(caller)
      denied == actionName_denied(s, addBlog_permission)
      id == Cardinality(blogs) + 1
      outcome == IF denied THEN "Unauthorized"
                 ELSE IF ~validBlog(formData) THEN "ValidationFailed"
                 ELSE "success"
  IN /\ outcome = "success" => Cardinality(blogs) < MaxBlogs
     /\ blogs' = IF outcome = "success"
                 THEN blogs \cup {[id |-> id] @@ createNewItem_data(s, formData)}
                 ELSE blogs
     /\ last' = [NoLast EXCEPT
                   !.op = "addBlog", !.caller = caller, !.user = UserOf(s),
                   !.permission = addBlog_permission,
                   !.verdict = actionName_verdict(s, addBlog_permission),
                   !.valid = validBlog(formData),
                   !.outcome = outcome,
                   !.calls = IF outcome = "success" THEN 1 ELSE 0,
                   !.blogId = IF outcome = "success" THEN id ELSE 0]
     /\ UNCHANGED <<requests, users, token, comments, commentSeq>>

\* Plausible bug: every field of the form is written, an authorId the
\* client added included.
updateBlog_data_allFields(b, formData) ==
  [b EXCEPT !.title = formData.title,
            !.authorId = IF formData.authorId # "" THEN formData.authorId
                         ELSE b.authorId]

\* The row after prisma.blog.update: the title of the form is written, the
\* author is not part of the update.
updateBlog_data(b, formData) == [b EXCEPT !.title = formData.title]

\* Plausible bug: the update is applied without looking for the blog.
updateBlog_found_unchecked(id) == TRUE

\* The blog to update is looked up before the update.
updateBlog_found(id) == findBlog(id) # {}

\* How updateBlog ends for a session and a blog id: the guard of the
\* pattern comes first, the lookup second.
updateBlog_outcome(s, id) ==
  IF actionName_denied(s, updateBlog_permission) THEN "Unauthorized"
  ELSE IF ~updateBlog_found(id) THEN "NotFound"
  ELSE "success"

\* updateBlog(id, formData): guard, existence check, prisma.blog.update.
updateBlog(caller, id, formData) ==
  LET s == getServerSession(caller)
      outcome == updateBlog_outcome(s, id)
  IN /\ blogs' = IF outcome = "success"
                 THEN {IF b.id = id THEN updateBlog_data(b, formData)
                       ELSE b : b \in blogs}
                 ELSE blogs
     /\ last' = [NoLast EXCEPT
                   !.op = "updateBlog", !.caller = caller, !.user = UserOf(s),
                   !.permission = updateBlog_permission,
                   !.verdict = actionName_verdict(s, updateBlog_permission),
                   !.outcome = outcome,
                   !.calls = CASE outcome = "Unauthorized" -> 0
                               [] outcome = "NotFound" -> 1
                               [] OTHER -> 2,
                   !.blogId = id]
     /\ UNCHANGED <<requests, users, token, comments, commentSeq>>

TotalGrants == LET RECURSIVE Sum(_)
                   Sum(S) == IF S = {} THEN 0
                             ELSE LET u == CHOOSE x \in S : TRUE
                                  IN Len(users[u].permissions) + Sum(S \ {u})
               IN Sum(UserIds)

\* The permission names an administrator assigns from the dashboard; the
\* README names ADMIN among them.
AssignableCaps == Caps \cup {"ADMIN"}

\* Plausible bug: the caller is checked with hasPermission(user, "ADMIN"), which
\* a holder of a permission named ADMIN passes.
assignPermission_allowed_viaPermission(s) ==
  Truthy(hasPermission(s.user, "ADMIN"))

\* assignPermission: "ADMIN role only".
assignPermission_allowed(s) == s.user.role = "ADMIN"

\* Plausible bug: assigning a permission the list holds takes it away.
assignPermission_list_toggle(list, permission_name) ==
  IF InSeq(permission_name, list)
  THEN SelectSeq(list, LAMBDA x : x # permission_name)
  ELSE Append(list, permission_name)

\* Plausible bug: the name is pushed onto the list without looking at it.
assignPermission_list_push(list, permission_name) ==
  Append(list, permission_name)

\* The list after the assignment: the name is added unless the list holds it.
assignPermission_list(list, permission_name) ==
  IF InSeq(permission_name, list) THEN list ELSE Append(list, permission_name)

\* assignPermission(userId, formData): ADMIN role only; the permission named
\* in the form is added to the user's list unless the list holds it.  One
\* persistence call reads the user, a second one writes a changed list.
assignPermission(caller, userId, permission_name) ==
  LET s == getServerSession(caller)
      outcome == IF s = Undefined THEN "Unauthenticated"
                 ELSE IF ~assignPermission_allowed(s) THEN "Denied"
                 ELSE "success"
      old == users[userId].permissions
      new == IF outcome = "success"
             THEN assignPermission_list(old, permission_name) ELSE old
  IN /\ (outcome = "success" /\ ~InSeq(permission_name, old))
          => TotalGrants < MaxGrants
     /\ users' = [users EXCEPT ![userId].permissions = new]
     /\ last' = [NoLast EXCEPT
                   !.op = "assignPermission", !.caller = caller,
                   !.user = UserOf(s), !.permission = permission_name,
                   !.outcome = outcome,
                   !.calls = IF outcome # "success" THEN 0
                             ELSE IF new = old THEN 1 ELSE 2,
                   !.targetUser = userId]
     /\ UNCHANGED <<requests, token, blogs, comments, commentSeq>>

Next ==
  \/ \E c \in [email : Emails, password : Passwords] : signIn(c)
  \/ \E u \in UserIds : signOut(u)
  \/ \E u \in UserIds, f \in BlogForms : addBlog(u, f)
  \/ \E u \in UserIds, id \in BlogIds, f \in BlogForms : updateBlog(u, id, f)
  \/ \E u \in UserIds, t \in UserIds, p \in Caps : assignPermission(u, t, p)

Spec == Init /\ [][Next]_vars

----------------------------------------------------------------------------
(* Blogs alone: the permission lists are those an administrator has        *)
(* assigned before, and stay as they are.                                  *)

PermissionMenu ==
  {<<>>, <<"CREATE_BLOG">>, <<"EDIT_BLOG">>, <<"UPDATE_BLOG">>}

InitBlogs ==
  /\ users \in {[u \in UserIds |->
                   [role |-> InitRole(u),
                    permissions |-> IF u = "u2" THEN p2
                                    ELSE IF u = "u3" THEN p3 ELSE <<>>,
                    password |-> Hash("right")]] :
                p2 \in PermissionMenu, p3 \in PermissionMenu}
  /\ token = [u \in UserIds |-> Undefined]
  /\ blogs = {}
  /\ comments = {}
  /\ commentSeq = 0
  /\ last = NoLast
  /\ requests = {}

NextBlogs ==
  \/ \E c \in [email : Emails, password : Passwords] : signIn(c)
  \/ \E u \in UserIds : signOut(u)
  \/ \E u \in UserIds, f \in BlogForms : addBlog(u, f)
  \/ \E u \in UserIds, id \in BlogIds, f \in BlogForms : updateBlog(u, id, f)

SpecBlogs == InitBlogs /\ [][NextBlogs]_vars

----------------------------------------------------------------------------
(* Comments.                                                               *)

CommentIds == 1..(MaxComments + 1)

findComment(id) == {c \in comments : c.id = id}

\* Plausible bug: administrators may delete any comment.
isCommentAuthor_orAdmin(s, comment) ==
  s.user.id = comment.authorId \/ s.user.role = "ADMIN"

\* Plausible bug: the author check is missing, any signed-in user deletes.
isCommentAuthor_anyone(s, comment) == TRUE

\* deleteComment: "Comment author only".
isCommentAuthor(s, comment) == s.user.id = comment.authorId

\* Plausible bug: the comment is stored under the author of the blog it is
\* written on.
comment_data_blogAuthor(s, blogId) ==
  [authorId |-> IF findBlog(blogId) = {} THEN ""
                ELSE (CHOOSE b \in findBlog(blogId) : TRUE).authorId,
   blogId |-> blogId]

\* The Comment row written for the caller: author and blog (the id is added
\* by the store, the text is not modelled).
comment_data(s, blogId) == [authorId |-> s.user.id, blogId |-> blogId]

\* Plausible bug: the comment is written without looking for the blog.
addCommentToBlog_found_unchecked(blogId) == TRUE

\* The blog commented on is looked up before the comment is written.
addCommentToBlog_found(blogId) == findBlog(blogId) # {}

\* addCommentToBlog(blogId, formData): any authenticated user; the comment is
\* stored with the caller as author (the text is not modelled).
addCommentToBlog(caller, blogId) ==
  LET s == getServerSession(caller)
      id == commentSeq + 1
      outcome == IF s = Undefined THEN "Unauthenticated"
                 ELSE IF ~addCommentToBlog_found(blogId) THEN "NotFound"
                 ELSE "success"
  IN /\ outcome = "success" => commentSeq < MaxComments
     /\ comments' = IF outcome = "success"
                    THEN LET data == comment_data(s, blogId)
                         IN comments \cup
                              {[id |-> id, authorId |-> data.authorId,
                                blogId |-> data.blogId]}
                    ELSE comments
     /\ commentSeq' = IF outcome = "success" THEN id ELSE commentSeq
     /\ last' = [NoLast EXCEPT
                   !.op = "addCommentToBlog", !.caller = caller,
                   !.user = UserOf(s), !.outcome = outcome, !.blogId = blogId,
                   !.commentId = IF outcome = "success" THEN id ELSE 0]
     /\ UNCHANGED <<requests, users, token, blogs>>

\* How deleteComment ends for a session and a comment id.
deleteComment_outcome(s, commentId) ==
  LET found == findComment(commentId)
  IN IF s = Undefined THEN "Unauthenticated"
     ELSE IF found = {} THEN "NotFound"
     ELSE IF \A c \in found : ~isCommentAuthor(s, c) THEN "Denied"
     ELSE "success"

\* deleteComment(commentId, blogId): only the author of the comment deletes it.
deleteComment(caller, commentId) ==
  LET s == getServerSession(caller)
      found == findComment(commentId)
      outcome == deleteComment_outcome(s, commentId)
  IN /\ comments' = IF outcome = "success" THEN comments \ found ELSE comments
     /\ last' = [NoLast EXCEPT
                   !.op = "deleteComment", !.caller = caller,
                   !.user = UserOf(s), !.outcome = outcome,
                   !.commentId = commentId]
     /\ UNCHANGED <<requests, users, token, blogs, commentSeq>>

NextComments ==
  \/ \E c \in [email : Emails, password : Passwords] : signIn(c)
  \/ \E u \in UserIds : signOut(u)
  \/ \E u \in UserIds, f \in BlogForms : addBlog(u, f)
  \/ \E u \in UserIds, b \in BlogIds : addCommentToBlog(u, b)
  \/ \E u \in UserIds, c \in CommentIds : deleteComment(u, c)

SpecComments == Init /\ [][NextComments]_vars

----------------------------------------------------------------------------
(* Permission assignment alone.                                            *)

NextAssign ==
  \/ \E c \in [email : Emails, password : Passwords] : signIn(c)
  \/ \E u \in UserIds : signOut(u)
  \/ \E u \in UserIds, t \in UserIds, p \in AssignableCaps :
       assignPermission(u, t, p)

SpecAssign == Init /\ [][NextAssign]_vars

----------------------------------------------------------------------------
(* The blog listing pages and their search.  Titles, categories and the     *)
(* query are sequences of characters here, so that case is visible.         *)

Letters == {"a", "A", "b"}

toLowerCase(ch) == IF ch = "A" THEN "a" ELSE ch

LowerCase(str) == [i \in 1..Len(str) |-> toLowerCase(str[i])]

\* sub occurs in str as a run of consecutive characters.
IsSubstring(sub, str) ==
  \E i \in 0..(Len(str) - Len(sub)) :
    \A j \in 1..Len(sub) : str[i + j] = sub[j]

\* The filter { contains: query, mode } of the store: without a mode the
\* match is by exact characters, with mode "insensitive" case is ignored.
contains(field, query, mode) ==
  IF mode = "insensitive"
  THEN IsSubstring(LowerCase(query), LowerCase(field))
  ELSE IsSubstring(query, field)

Words == UNION {[1..n -> Letters] : n \in 1..MaxWordLen}

Queries == Words \cup {<<>>}

\* The ids of the rows of a findMany.
Ids(rows) == {b.id : b \in rows}

\* Blogs({ searchParams }) of app/blogs/page.jsx: an absent or empty query
\* lists every blog.
Blogs(query) ==
  /\ last' = [NoLast EXCEPT
                !.op = "Blogs", !.query = query,
                !.result =
                  Ids(IF query # <<>>
                      THEN {b \in blogs :
                              \/ contains(b.title, query, "insensitive")
                              \/ contains(b.category, query, "insensitive")}
                      ELSE blogs)]
  /\ UNCHANGED <<requests, users, token, blogs, comments, commentSeq>>

\* Blogs({searchParams}) of the home blogs listing page.
Blogs_home(query) ==
  /\ last' = [NoLast EXCEPT
                !.op = "Blogs_home", !.query = query,
                !.result =
                  Ids(IF query # <<>>
                      THEN {b \in blogs :
                              \/ contains(b.title, query, "default")
                              \/ contains(b.category, query, "default")}
                      ELSE blogs)]
  /\ UNCHANGED <<requests, users, token, blogs, comments, commentSeq>>

\* The store holds one blog of any title and category, alone or next to a
\* second blog; nobody is signed in.
InitSearch ==
  /\ users = [u \in UserIds |->
                [role |-> InitRole(u), permissions |-> <<>>,
                 password |-> Hash("right")]]
  /\ token = [u \in UserIds |-> Undefined]
  /\ \E t \in Words, c \in Words, more \in BOOLEAN :
       blogs = {[id |-> 1, title |-> t, category |-> c, authorId |-> "u1"]}
               \cup (IF more
                     THEN {[id |-> 2, title |-> <<"A">>, category |-> <<"b">>,
                            authorId |-> "u1"]}
                     ELSE {})
  /\ comments = {}
  /\ commentSeq = 0
  /\ last = NoLast
  /\ requests = {}

NextSearch ==
  \/ \E q \in Queries : Blogs(q)
  \/ \E q \in Queries : Blogs_home(q)

SpecSearch == InitSearch /\ [][NextSearch]_vars

----------------------------------------------------------------------------
(* Fetching comments and users.                                            *)

\* Plausible bug: the limit of another query of the guide is used.
take_ten == 5 + 5

\* "Pagination: Limited query results (take: 5)".
take == 5

\* The n most recently created rows: ids are given in creation order.
MostRecent(rows, n) ==
  {c \in rows : Cardinality({d \in rows : d.id > c.id}) < n}

\* fetchComments(blogId): the 5 most recent comments of the blog; public.
fetchComments(blogId) ==
  /\ last' = [NoLast EXCEPT
                !.op = "fetchComments", !.blogId = blogId,
                !.outcome = "success",
                !.result =
                  Ids(MostRecent({c \in comments : c.blogId = blogId}, take))]
  /\ UNCHANGED <<requests, users, token, blogs, comments, commentSeq>>

\* The users of a larger store, in the order they registered.
UserOrder == <<"u1", "u2", "u3", "u4", "u5", "u6">>

\* fetchUsers(): the users, limited to 5, in the order of the store; no
\* check of the caller is documented as enforced.
fetchUsers ==
  /\ last' = [NoLast EXCEPT
                !.op = "fetchUsers", !.outcome = "success",
                !.result = {UserOrder[i] :
                              i \in {j \in 1..Len(UserOrder) :
                                       /\ UserOrder[j] \in DOMAIN users
                                       /\ j <= take}}]
  /\ UNCHANGED <<requests, users, token, blogs, comments, commentSeq>>

\* A store with every blog, any number of registered users, and up to
\* MaxRows comments spread over the blogs; nobody is signed in.
InitFetch ==
  /\ \E n \in 0..Len(UserOrder) :
       users = [u \in {UserOrder[i] : i \in 1..n} |->
                  [role |-> "USER", permissions |-> <<>>,
                   password |-> Hash("right")]]
  /\ token = [u \in UserIds |-> Undefined]
  /\ blogs = {[id |-> b, title |-> "T", authorId |-> "u1"] : b \in BlogIds}
  /\ \E n \in 0..MaxRows : \E on \in [1..n -> BlogIds] :
       /\ comments = {[id |-> i, authorId |-> "u1", blogId |-> on[i]] :
                        i \in 1..n}
       /\ commentSeq = n
  /\ last = NoLast
  /\ requests = {}

NextFetch ==
  \/ \E b \in BlogIds : fetchComments(b)
  \/ fetchUsers

SpecFetch == InitFetch /\ [][NextFetch]_vars

----------------------------------------------------------------------------
(* Route protection (app/middleware.js).  A path is the sequence of its     *)
(* segments: "/" is <<>>, "/blogs/1" is <<"blogs", "1">>.                   *)

Segments == {"blogs", "add-blog", "update-blog", "admin", "1"}

\* The paths requested: "/" and the paths below /blogs and /admin.
Paths ==
  {<<>>} \cup
    {path \in UNION {[1..n -> Segments] : n \in 1..MaxPathLen} :
       path[1] \in {"blogs", "admin"}}

\* Plausible bug: everything under /blogs is matched.
config_matcher_blogs ==
  {<<>>, <<"blogs", ":path*">>, <<"admin", ":path*">>}

\* config.matcher of the middleware.
config_matcher ==
  {<<>>,
   <<"blogs", "add-blog">>,
   <<"blogs", "update-blog", ":path*">>,
   <<"admin", ":path*">>}

\* A matcher pattern applies to a path: ":path*" stands for zero or more
\* further segments, a pattern without it for that path alone.
Matches(pattern, path) ==
  IF pattern # <<>> /\ pattern[Len(pattern)] = ":path*"
  THEN /\ Len(path) >= Len(pattern) - 1
       /\ \A i \in 1..(Len(pattern) - 1) : path[i] = pattern[i]
  ELSE path = pattern

\* The default middleware of next-auth on a request: on the matched paths a
\* request without a token is redirected to the sign-in page, every other
\* request goes on to the page.
middleware(caller, path) ==
  LET matched == \E pattern \in config_matcher : Matches(pattern, path)
  IN /\ last' = [NoLast EXCEPT
                   !.op = "middleware", !.caller = caller,
                   !.user = UserOf(getServerSession(caller)),
                   !.path = path,
                   !.outcome = IF matched /\ token[caller] = Undefined
                               THEN "redirect /api/auth/signin"
                               ELSE "next"]
     /\ UNCHANGED <<requests, users, token, blogs, comments, commentSeq>>

NextRoutes ==
  \/ \E c \in [email : Emails, password : Passwords] : signIn(c)
  \/ \E u \in UserIds : signOut(u)
  \/ \E u \in UserIds, path \in Paths : middleware(u, path)

SpecRoutes == Init /\ [][NextRoutes]_vars

----------------------------------------------------------------------------
(* assignPermission requests handled at the same time: the read of the     *)
(* target user and the write of the new list are two calls to the store,   *)
(* and calls of other requests may fall between them.                      *)

\* First half of assignPermission: session and role check, then the read of
\* the target's list.  A refused call ends here.
assignPermission_findUnique(caller, userId, permission_name) ==
  LET s == getServerSession(caller)
      outcome == IF s = Undefined THEN "Unauthenticated"
                 ELSE IF ~assignPermission_allowed(s) THEN "Denied"
                 ELSE "reading"
  IN /\ outcome = "reading" => Cardinality(requests) < MaxRequests
     /\ requests' = IF outcome = "reading"
                    THEN requests \cup
                           {[id |-> Cardinality(requests) + 1,
                             caller |-> caller, targetUser |-> userId,
                             permission |-> permission_name,
                             seen |-> users[userId].permissions,
                             pc |-> "update"]}
                    ELSE requests
     /\ last' = [NoLast EXCEPT
                   !.op = "assignPermission", !.caller = caller,
                   !.user = UserOf(s), !.permission = permission_name,
                   !.outcome = outcome, !.targetUser = userId]
     /\ UNCHANGED <<users, token, blogs, comments, commentSeq>>

\* Second half: the list computed from what was read is written back with
\* update(collection, id, data), and the request is done.
assignPermission_update(r) ==
  LET new == assignPermission_list(r.seen, r.permission)
      old == users[r.targetUser].permissions
  IN /\ r.pc = "update"
     /\ TotalGrants - Len(old) + Len(new) <= MaxGrants
     /\ users' = [users EXCEPT ![r.targetUser].permissions = new]
     /\ requests' = (requests \ {r}) \cup {[r EXCEPT !.pc = "done"]}
     /\ last' = [NoLast EXCEPT
                   !.op = "assignPermission", !.caller = r.caller,
                   !.permission = r.permission, !.outcome = "success",
                   !.targetUser = r.targetUser]
     /\ UNCHANGED <<token, blogs, comments, commentSeq>>

\* Two administrators and a user; nobody is signed in.
InitConcurrent ==
  /\ users = [u \in UserIds |->
                [role |-> IF u = "u3" THEN "USER" ELSE "ADMIN",
                 permissions |-> <<>>, password |-> Hash("right")]]
  /\ token = [u \in UserIds |-> Undefined]
  /\ blogs = {}
  /\ comments = {}
  /\ commentSeq = 0
  /\ last = NoLast
  /\ requests = {}

NextConcurrent ==
  \/ \E c \in [email : Emails, password : Passwords] : signIn(c)
  \/ \E u \in UserIds, t \in UserIds, p \in Caps :
       assignPermission_findUnique(u, t, p)
  \/ \E r \in requests : assignPermission_update(r)

SpecConcurrent == InitConcurrent /\ [][NextConcurrent]_vars

----------------------------------------------------------------------------
(* Server-side validation of the blog form (security documentation).  The  *)
(* text of a field is a sequence of characters, a letter or a blank.        *)

Texts(n) == UNION {[1..k -> {"x", " "}] : k \in 0..n}

\* String.prototype.trim: leading and trailing blanks are removed.
trim(str) ==
  LET inked == {i \in 1..Len(str) : str[i] # " "}
  IN IF inked = {} THEN <<>>
     ELSE LET lo == CHOOSE i \in inked : \A j \in inked : i <= j
              hi == CHOOSE i \in inked : \A j \in inked : j <= i
          IN [k \in 1..(hi - lo + 1) |-> str[lo + k - 1]]

\* Plausible bug: only emptiness is checked.
createBlog_error_nonEmpty(title, description) ==
  IF title = <<>> THEN "Title must be at least 3 characters"
  ELSE IF description = <<>>
       THEN "Description must be at least 10 characters"
  ELSE "none"

\* The two checks of createBlog on the trimmed fields:
\*   if (!title || title.length < 3) throw ...
\*   if (!description || description.length < 10) throw ...
createBlog_error(title, description) ==
  IF title = <<>> \/ Len(title) < 3
  THEN "Title must be at least 3 characters"
  ELSE IF description = <<>> \/ Len(description) < 10
       THEN "Description must be at least 10 characters"
  ELSE "none"

\* createBlog(formData): the fields are trimmed and validated, then the
\* database operation follows; calls counts the database operations.
createBlog(formData) ==
  LET title == trim(formData.title)
      description == trim(formData.description)
      error == createBlog_error(title, description)
  IN /\ last' = [NoLast EXCEPT
                   !.op = "createBlog", !.form = formData,
                   !.outcome = IF error = "none" THEN "success"
                               ELSE "threw " \o error,
                   !.calls = IF error = "none" THEN 1 ELSE 0]
     /\ UNCHANGED <<requests, users, token, blogs, comments, commentSeq>>

\* An empty store and a form filled in, not yet submitted.
InitValidate ==
  /\ users = [u \in UserIds |->
                [role |-> InitRole(u), permissions |-> <<>>,
                 password |-> Hash("right")]]
  /\ token = [u \in UserIds |-> Undefined]
  /\ blogs = {}
  /\ comments = {}
  /\ commentSeq = 0
  /\ \E f \in [title : Texts(MaxTitleLen),
               description : Texts(MaxDescriptionLen)] :
       last = [NoLast EXCEPT !.form = f]
  /\ requests = {}

\* The form is submitted.
NextValidate == createBlog(last.form)

SpecValidate == InitValidate /\ [][NextValidate]_vars

----------------------------------------------------------------------------
(* The role-restricting middleware of the guide (middleware.js).           *)

DashboardPaths ==
  {path \in UNION {[1..n -> {"dashboard", "users"}] : n \in 1..MaxPathLen} :
     path[1] = "dashboard"}

\* const restrictedRoutes = ["/dashboard"];
restrictedRoutes == {<<"dashboard">>}

\* middleware(req) on a path of matcher "/dashboard/:path*":
\*   if (!token) redirect /login
\*   if (restrictedRoutes.includes(pathname) && !token.role.includes("ADMIN"))
\*     redirect /
\*   NextResponse.next()
middleware_dashboard(caller, path) ==
  LET tok == token[caller]
  IN /\ Matches(<<"dashboard", ":path*">>, path)
     /\ last' = [NoLast EXCEPT
                   !.op = "middleware_dashboard", !.caller = caller,
                   !.user = UserOf(getServerSession(caller)),
                   !.path = path,
                   !.outcome =
                     IF tok = Undefined THEN "redirect /login"
                     ELSE IF path \in restrictedRoutes
                               /\ ~String_includes(tok.role, "ADMIN")
                          THEN "redirect /"
                     ELSE "next"]
     /\ UNCHANGED <<requests, users, token, blogs, comments, commentSeq>>

NextDashboard ==
  \/ \E c \in [email : Emails, password : Passwords] : signIn(c)
  \/ \E u \in UserIds : signOut(u)
  \/ \E u \in UserIds, path \in DashboardPaths : middleware_dashboard(u, path)

SpecDashboard == Init /\ [][NextDashboard]_vars

----------------------------------------------------------------------------
(* Properties.                                                             *)

\* The identity holds the capability: its role is ADMIN or its permission
\* list names the capability.
Holds(user, cap) ==
  user.role = "ADMIN" \/
    ("permissions" \in DOMAIN user /\ InSeq(cap, user.permissions))

Checked == last.op \in {"protectedAction", "protectedAction_sec"}

\* C1: for an identity whose role is ADMIN the permission check returns true
\* for every capability, whatever its permission list holds (also when the
\* list is empty or missing), and the guard lets the action proceed.
C1_AdminAlwaysAllowed ==
  (Checked /\ last.user # Undefined /\ last.user.role = "ADMIN")
    => (last.verdict = "true" /\ last.outcome = "success")

\* An ADMIN with an empty permission list passed the check.
C1_Witness ==
  /\ last.op = "protectedAction"
  /\ last.user # Undefined
  /\ last.user.role = "ADMIN"
  /\ "permissions" \in DOMAIN last.user
  /\ last.user.permissions = <<>>
  /\ last.verdict = "true"

C3_AbsentIdentityIsFalse ==
  (Checked /\ last.user = Undefined /\ last.verdict # "not called")
    => last.verdict = "false"

\* C4: when the permission check of a guarded action (addBlog, updateBlog)
\* returns a falsy value, the wrapped operation is not invoked: the action
\* ends Unauthorized, makes no persistence call and leaves users, blogs and
\* comments as they were.
C4_DeniedNoEffect ==
  [][(last'.op \in {"addBlog", "updateBlog"}
        /\ last'.verdict \in {"false", "undefined"})
       => (/\ last'.outcome = "Unauthorized"
           /\ last'.calls = 0
           /\ UNCHANGED <<users, blogs, comments>>)]_vars

\* updateBlog of an existing blog was refused after a check that said false.
C4_Witness ==
  /\ last.op = "updateBlog"
  /\ last.verdict = "false"
  /\ last.outcome = "Unauthorized"
  /\ findBlog(last.blogId) # {}

C8_AssignedThenUpdateSucceeds ==
  (/\ last.op = "updateBlog"
   /\ last.user # Undefined
   /\ InSeq("EDIT_BLOG", users[last.caller].permissions)
   /\ \E b \in findBlog(last.blogId) : b.authorId # last.caller)
    => last.outcome = "success"

Count(x, list) == Cardinality({i \in 1..Len(list) : list[i] = x})

\* C11: assignPermission changes a permission list only when the caller's
\* role is ADMIN: a call by an EDITOR, a USER or nobody is refused and leaves
\* every list as it was, whatever the caller holds, a permission named ADMIN
\* included; and nothing else changes the users.
C11_AssignOnlyByAdminRole ==
  [][/\ (last'.op = "assignPermission"
           /\ (last'.user = Undefined \/ last'.user.role # "ADMIN"))
          => (last'.outcome \in {"Denied", "Unauthenticated"} /\ users' = users)
     /\ users' # users
          => (last'.op = "assignPermission" /\ last'.user # Undefined
                /\ last'.user.role = "ADMIN")]_vars

\* An EDITOR or USER holding the permission named ADMIN was refused.
C11_Witness ==
  /\ last.op = "assignPermission"
  /\ last.user # Undefined
  /\ last.user.role # "ADMIN"
  /\ InSeq("ADMIN", last.user.permissions)
  /\ last.outcome = "Denied"

\* C12: assignPermission is idempotent: after a successful call the target's
\* list holds the permission exactly once, and a call for a permission the
\* list already holds succeeds and changes nothing.
C12_AssignIdempotent ==
  [][(last'.op = "assignPermission" /\ last'.outcome = "success")
       => (/\ Count(last'.permission,
                    users'[last'.targetUser].permissions) = 1
           /\ InSeq(last'.permission, users[last'.targetUser].permissions)
                => users' = users)]_vars

\* An assignment of a permission the list already held succeeded without a
\* write.
C12_Witness ==
  /\ last.op = "assignPermission"
  /\ last.outcome = "success"
  /\ last.calls = 1
  /\ Count(last.permission, users[last.targetUser].permissions) = 1

C14_SearchCaseInsensitive ==
  (last.op \in {"Blogs", "Blogs_home"} /\ last.query # <<>>)
    => last.result =
         Ids({b \in blogs :
                \/ IsSubstring(LowerCase(last.query), LowerCase(b.title))
                \/ IsSubstring(LowerCase(last.query), LowerCase(b.category))})

\* The outcomes that are a thrown error.
Thrown ==
  {"threw TypeError", "threw Insufficient permissions",
   "threw Authentication required"}

\* C15: when the caller is known but does not hold the required capability
\* (the expected failure Denied), the guard of a mutating action does not
\* throw: it returns an outcome.
C15_ExpectedFailuresReturn ==
  (Checked /\ last.user # Undefined /\ ~Holds(last.user, last.permission))
    => last.outcome \notin Thrown

\* What a returned value carries of the operation's own result.
Carried(returned) ==
  IF "data" \in DOMAIN returned THEN [row |-> returned.data]
  ELSE [thrown |-> returned.error]

\* C16 as stated: when the permission check returns true, the guard executes
\* the wrapped operation exactly once and returns that operation's result
\* unchanged, its own failure included.
C16_Original ==
  (last.op = "actionName" /\ last.verdict = "true")
    => (last.calls = 1 /\ Carried(last.returned) = last.opResult)

\* C16: when the permission check returns true, the guard executes the
\* wrapped operation exactly once; the operation's row is returned as the
\* data of a success value, and a failure of the operation is returned as
\* the error "Operation failed" in place of the operation's own error.
C16_GuardRunsOnce ==
  (last.op = "actionName" /\ last.verdict = "true")
    => /\ last.calls = 1
       /\ "row" \in DOMAIN last.opResult
            => last.returned = [success |-> TRUE, data |-> last.opResult.row]
       /\ "thrown" \in DOMAIN last.opResult
            => last.returned = [error |-> "Operation failed"]

\* The check passed, the operation ran and failed.
C16_Witness ==
  /\ last.op = "actionName"
  /\ last.verdict = "true"
  /\ last.calls = 1
  /\ "thrown" \in DOMAIN last.opResult
  /\ last.outcome = "Operation failed"

\* C17: called with no identity, a mutating action ends with an outcome of
\* its own (Unauthenticated), different from what it returns to any known
\* caller it denies.
C17_UnauthenticatedDistinct ==
  (last.op = "actionName" /\ last.user = Undefined)
    => \A s \in SessionInputs \ {Undefined}, c \in CreateResults :
         actionName_denied(s, last.permission)
           => actionName_return(s, last.permission, c) # last.returned

ProtectedRoute(path) ==
  \/ path = <<>>
  \/ path = <<"blogs", "add-blog">>
  \/ Len(path) >= 2 /\ path[1] = "blogs" /\ path[2] = "update-blog"
  \/ Len(path) >= 1 /\ path[1] = "admin"

\* C19: a request without a session token for a protected route is not let
\* through to the page but redirected to sign-in, while the blog listing
\* /blogs and a blog detail page /blogs/<id> are served with or without a
\* session.
C19_ProtectedRoutes ==
  last.op = "middleware"
    => /\ (ProtectedRoute(last.path) /\ last.user = Undefined)
            => last.outcome = "redirect /api/auth/signin"
       /\ last.path \in {<<"blogs">>, <<"blogs", "1">>}
            => last.outcome = "next"

\* A request for a page under /blogs/update-blog without a session was
\* redirected.
C19_Witness ==
  /\ last.op = "middleware"
  /\ last.user = Undefined
  /\ last.path = <<"blogs", "update-blog", "1">>
  /\ last.outcome = "redirect /api/auth/signin"

C21_ConcurrentAssign ==
  /\ \A u \in UserIds : \A p \in AssignableCaps :
       Count(p, users[u].permissions) <= 1
  /\ \A r \in requests :
       r.pc = "done" => InSeq(r.permission, users[r.targetUser].permissions)

\* C22: updateBlog by a caller who passes the permission check, on a blog id
\* that does not exist, ends NotFound after the lookup alone: no blog is
\* created and no blog is changed.
C22_UpdateNotFound ==
  [][(last'.op = "updateBlog" /\ last'.verdict = "true"
        /\ findBlog(last'.blogId) = {})
       => (last'.outcome = "NotFound" /\ last'.calls = 1
             /\ blogs' = blogs)]_vars

\* An allowed caller asked to update a missing blog while another blog
\* exists.
C22_Witness ==
  /\ last.op = "updateBlog"
  /\ last.verdict = "true"
  /\ last.outcome = "NotFound"
  /\ blogs # {}
  /\ findBlog(last.blogId) = {}

\* Number of characters of a text that are not blanks.
Inked(str) == Cardinality({i \in 1..Len(str) : str[i] # " "})

\* C23 as stated: an empty title or description is refused before any
\* persistence call, and a title and a description of one character are
\* accepted.
C23_Original ==
  last.op = "createBlog"
    => /\ (Inked(last.form.title) = 0 \/ Inked(last.form.description) = 0)
            => (last.outcome # "success" /\ last.calls = 0)
       /\ (Inked(last.form.title) >= 1 /\ Inked(last.form.description) >= 1)
            => last.outcome = "success"

\* C23: createBlog refuses, before any persistence call, a form whose title
\* has fewer than 3 characters or whose description has fewer than 10, blanks
\* at both ends not counted (an empty field included); every other form
\* passes validation.
C23_MinimumLengths ==
  last.op = "createBlog"
    => LET title == trim(last.form.title)
           description == trim(last.form.description)
       IN IF Len(title) < 3 \/ Len(description) < 10
          THEN last.outcome # "success" /\ last.calls = 0
          ELSE last.outcome = "success" /\ last.calls = 1

\* A form with a one-character title and a description of 10 characters
\* was refused.
C23_Witness ==
  /\ last.op = "createBlog"
  /\ Len(trim(last.form.title)) = 1
  /\ Len(trim(last.form.description)) = 10
  /\ last.outcome = "threw Title must be at least 3 characters"
  /\ last.calls = 0

C26_DashboardAdminOnly ==
  (last.op = "middleware_dashboard" /\ last.path[1] = "dashboard")
    => /\ last.user = Undefined => last.outcome = "redirect /login"
       /\ (last.user # Undefined /\ last.user.role # "ADMIN")
            => last.outcome = "redirect /"

\* C27: the gate of the editor's page renders the page exactly for the
\* sessions that hold EDIT_BLOG, and redirects every other session, an absent
\* one included, to /.
C27_EditorPageGate ==
  last.op = "Page"
    => IF /\ last.user # Undefined
          /\ "permissions" \in DOMAIN last.user
          /\ InSeq("EDIT_BLOG", last.user.permissions)
       THEN last.outcome = "page"
       ELSE last.outcome = "redirect /"

\* C28: a sign-in that yields no identity ends with authorize returning
\* null: no error is raised (and no session is created).
C28_InvalidCredentialsReturnNull ==
  (last.op = "signIn" /\ last.outcome # "success") => last.outcome = "null"

\* C29: roles inherit permissions: for an EDITOR the check of CREATE_BLOG and
\* of EDIT_BLOG returns true by the role alone, and for an ADMIN every check
\* returns true.
C29_RolesInherit ==
  (Checked /\ last.user # Undefined)
    => /\ (last.user.role = "EDITOR"
             /\ last.permission \in {"CREATE_BLOG", "EDIT_BLOG"})
            => last.verdict = "true"
       /\ last.user.role = "ADMIN" => last.verdict = "true"

====
